---- MODULE Spec2Model ----
(***************************************************************************)
(* Paper2Slides pipeline orchestration: the session gate (SessionManager), *)
(* the /api/chat and /api/cancel handlers, the background pipeline task    *)
(* (run_pipeline_background, generate_slides_with_pipeline,                *)
(* _update_state_on_error) and the four pipeline stages with their         *)
(* checkpoints and the persisted run record (state.json).                  *)
(***************************************************************************)
EXTENDS Integers, Sequences, FiniteSets, TLC

\* ------------------------------------------------------------------ bounds
\* background tasks (accepted /api/chat requests) in one behaviour
MaxTasks == 3
\* session ids (uuid4 values) that can ever be issued
MaxSessions == 2

\* sections of a content plan handed to ImageGenerator.generate
MaxSections == 5
\* the largest max_workers of a generate call
MaxWorkers == 2
Tasks == 1..MaxTasks
Sessions == 1..MaxSessions

\* ------------------------------------------------------- program constants
\* running_session = None
NoSession == 0

STAGES == <<"rag", "summary", "plan", "generate">>
NumStages == Len(STAGES)
StageIdx == 1..NumStages

PREDEFINED_STYLES == {"academic", "doraemon"}

\* request inputs: the message form field and the style form field
Messages == {"", " m "}
Styles == {"Doraemon"}

\* str.strip() on the messages of the model
Strip(m) == IF m = " m " THEN "m" ELSE m
\* str.lower() on the styles of the model
Lower(s) == IF s = "Doraemon" THEN "doraemon" ELSE s

NoCustom == "None"

\* style_type / custom_style as generate_slides_with_pipeline computes them
RunStyle(message, style) ==
    IF Strip(message) # ""
    THEN [style |-> "custom", custom_style |-> Strip(message)]
    ELSE IF Lower(style) \in PREDEFINED_STYLES
         THEN [style |-> Lower(style), custom_style |-> NoCustom]
         ELSE [style |-> "custom", custom_style |-> style]

\* style_type as _update_state_on_error computes it (its config has no
\* custom_style key and the message is not a parameter)
ErrorStyle(style) ==
    [style |-> IF Lower(style) \in PREDEFINED_STYLES THEN Lower(style) ELSE "custom",
     custom_style |-> NoCustom]

\* the configuration directory is named by the configuration fingerprint
get_config_dir(config) == <<config.style, config.custom_style>>

ConfigDirs ==
    {get_config_dir(RunStyle(m, s)) : m \in Messages, s \in Styles}
        \cup {get_config_dir(ErrorStyle(s)) : s \in Styles}

\* ------------------------------------------------------------------- state
VARIABLES
    running_session,     \* SessionManager.running_session
    cancelled_sessions,  \* SessionManager.cancelled_sessions
    uploads,             \* UPLOAD_DIR/<session_id>: "absent", "pdf", "nopdf"
    task,                \* the background tasks: the frames of run_pipeline_background,
                         \* generate_slides_with_pipeline and run_pipeline, and the
                         \* number of calls of each stage's work function
    state_json,          \* the persisted run record of each configuration directory
    checkpoint_rag,      \* get_rag_checkpoint(base_dir, config) exists
    checkpoint_summary,  \* get_summary_checkpoint(base_dir, config) exists
    checkpoint_plan,     \* get_plan_checkpoint(config_dir) exists, per directory
    results,             \* app.state.results
    cancel_response,     \* "cancelled" in the last response of POST /api/cancel/{id}
    cancel_seen,         \* history: the tasks during whose run cancel_session of
                         \* their id returned True
    holder,              \* history: the task whose start_session took the slot that
                         \* is held now, 0 when the slot is free
    checkpoint_file,     \* a stage function on its own: the content of the three
                         \* checkpoint files it is called with
    stage_run,           \* a stage function on its own: the last call (the stage,
                         \* its outcome, external calls made, files written)
    gen_plan,            \* ImageGenerator.generate: output type, number of sections
                         \* and max_workers of the call
    gen_pc,              \* where the calling thread of generate is
    unit,                \* the per-section generation calls: status, attempts made,
                         \* waits between attempts, style reference passed
    style_ref_image,     \* _generate_slides: style_ref_image
    gen_results,         \* the list that generate returns
    results_dict,        \* _generate_slides: results_dict
    save_calls           \* the calls of save_callback, in order

vars == <<running_session, cancelled_sessions, uploads, task, state_json,
          checkpoint_rag, checkpoint_summary, checkpoint_plan, results,
          cancel_response, cancel_seen, holder, checkpoint_file, stage_run,
          gen_plan, gen_pc, unit, style_ref_image, gen_results, results_dict,
          save_calls>>

gate == <<running_session, cancelled_sessions>>
disk == <<state_json, checkpoint_rag, checkpoint_summary, checkpoint_plan>>
server == <<running_session, cancelled_sessions, uploads, task, state_json,
            checkpoint_rag, checkpoint_summary, checkpoint_plan, results,
            cancel_response, cancel_seen, holder>>
stage_unit == <<checkpoint_file, stage_run>>
generator == <<gen_plan, gen_pc, unit, style_ref_image, gen_results, results_dict,
               save_calls>>
\* what the server model leaves alone
outside_server == <<stage_unit, generator>>
\* what a stage function called on its own leaves alone
outside_stage_unit == <<server, generator>>
\* what a generate call on its own leaves alone
outside_generator == <<server, stage_unit>>

Sections == 0..(MaxSections - 1)
\* plan.sections[i].id
section_id(i) == ToString(i)
\* a generation call: seq is its place in the order in which the calls of one
\* generate come to their end (0 while it has not)
NoUnit == [status |-> "idle", attempts |-> 0, waits |-> <<>>, ref |-> "none", seq |-> 0]
\* no generate call yet
GeneratorIdle ==
    /\ gen_pc = "idle"
    /\ unit = [i \in Sections |-> NoUnit]
    /\ style_ref_image = "none"
    /\ gen_results = <<>>
    /\ results_dict = <<>>
    /\ save_calls = <<>>

CheckpointNames == {"rag", "summary", "plan"}
\* the last call of a stage function: images are the images the generate stage
\* counts in its result, generator tells whether it called ImageGenerator.generate
NoRun == [stage |-> "none", outcome |-> "none", external |-> FALSE, wrote |-> {},
          images |-> <<>>, generator |-> FALSE]

AllPending == [i \in StageIdx |-> "pending"]

NoState == [exists |-> FALSE, session_id |-> NoSession, stages |-> AllPending, error |-> "null"]

\* a task: pc is "idle" (not created), "scheduled" (added by /api/chat), "loop"
\* (run_pipeline entered, before its first stage), "stage" (awaiting a stage's
\* work function) or "done"; state is the run record run_pipeline holds
IdleTask ==
    [pc |-> "idle", session_id |-> NoSession, message |-> "", style |-> "Doraemon",
     from_stage |-> 1, stage |-> 1, state |-> NoState,
     calls |-> [i \in StageIdx |-> 0]]

\* the server after construction, before any request
ServerInit ==
    /\ running_session = NoSession
    /\ cancelled_sessions = {}
    /\ uploads = [s \in Sessions |-> "absent"]
    /\ task = [t \in Tasks |-> IdleTask]
    /\ state_json = [d \in ConfigDirs |-> NoState]
    /\ checkpoint_rag = FALSE
    /\ checkpoint_summary = FALSE
    /\ checkpoint_plan = [d \in ConfigDirs |-> FALSE]
    /\ results = [s \in Sessions |-> "none"]
    /\ cancel_response = FALSE
    /\ cancel_seen = {}
    /\ holder = 0

\* the plan and options of a generate call
GenPlans ==
    [output_type : {"slides", "poster"}, total : 0..MaxSections,
     max_workers : 1..MaxWorkers]

StageUnitIdle ==
    /\ checkpoint_file = [n \in CheckpointNames |-> "absent"]
    /\ stage_run = NoRun

Init ==
    /\ ServerInit
    /\ StageUnitIdle
    /\ GeneratorIdle
    /\ gen_plan = [output_type |-> "slides", total |-> 0, max_workers |-> 1]

\* ------------------------------------------------------------ SessionManager
\* a start_session that also admits the id that is already running
start_session_reentrant(running, cancelled, id) ==
    IF running # NoSession /\ running # id
    THEN [running |-> running, cancelled |-> cancelled, ret |-> FALSE]
    ELSE [running |-> id, cancelled |-> cancelled \ {id}, ret |-> TRUE]

\* a start_session that leaves the cancel flag of the id it admits
start_session_keeps_flag(running, cancelled, id) ==
    IF running # NoSession
    THEN [running |-> running, cancelled |-> cancelled, ret |-> FALSE]
    ELSE [running |-> id, cancelled |-> cancelled, ret |-> TRUE]

\* start_session: the new (running_session, cancelled_sessions, return value)
start_session(running, cancelled, id) ==
    IF running # NoSession
    THEN [running |-> running, cancelled |-> cancelled, ret |-> FALSE]
    ELSE [running |-> id, cancelled |-> cancelled \ {id}, ret |-> TRUE]

\* an end_session that never releases the slot
end_session_keeps(running, id) == running

\* end_session: the new running_session
end_session(running, id) ==
    IF running = id THEN NoSession ELSE running

\* a cancel_session that does not compare id with the active run
cancel_session_any(running, cancelled, id) ==
    [cancelled |-> cancelled \cup {id}, ret |-> TRUE]

\* cancel_session: the new (cancelled_sessions, return value)
cancel_session(running, cancelled, id) ==
    IF running = id
    THEN [cancelled |-> cancelled \cup {id}, ret |-> TRUE]
    ELSE [cancelled |-> cancelled, ret |-> FALSE]

is_cancelled(cancelled, id) == id \in cancelled

\* ------------------------------------------------------------- POST /api/chat
MinOf(S) == CHOOSE x \in S : \A y \in S : x <= y

FreeSlots == {t \in Tasks : task[t].pc = "idle"}
FreshIds == {s \in Sessions : uploads[s] = "absent"}

\* the branch the handler takes: "reuse", "new", "404" or "409"
chat_decision(running, session_id, files, dir) ==
    IF session_id # NoSession /\ files = "none"
    THEN IF dir # "absent"
         THEN IF running # NoSession /\ running # session_id THEN "409" ELSE "reuse"
         ELSE "404"
    ELSE IF running # NoSession THEN "409" ELSE "new"

\* the status of the HTTPException the handler raises inside its try block,
\* 200 when it raises none
raised_status(decision) ==
    IF decision = "409" THEN 409 ELSE IF decision = "404" THEN 404 ELSE 200

\* the status of the response: the try block is closed by "except Exception",
\* which catches the HTTPException too and raises HTTPException(500)
chat_status(decision) == IF raised_status(decision) # 200 THEN 500 ELSE 200

\* background_tasks.add_task(run_pipeline_background, session_id, message, ...)
add_task(id, message, style) ==
    task' = [task EXCEPT ![MinOf(FreeSlots)] =
                [IdleTask EXCEPT !.pc = "scheduled", !.session_id = id,
                                 !.message = message, !.style = style]]

Chat(session_id, files, message, style) ==
    /\ FreeSlots # {}
    /\ LET dir == IF session_id = NoSession THEN "absent" ELSE uploads[session_id]
           d == chat_decision(running_session, session_id, files, dir)
       IN  \/ /\ d = "reuse"
              /\ add_task(session_id, message, style)
              /\ UNCHANGED uploads
           \/ /\ d = "new"
              /\ FreshIds # {}
              /\ uploads' = [uploads EXCEPT ![MinOf(FreshIds)] =
                                IF files = "pdf" THEN "pdf" ELSE "nopdf"]
              /\ add_task(MinOf(FreshIds), message, style)
    /\ UNCHANGED <<outside_server, gate, disk, results, cancel_response, cancel_seen, holder>>

\* ----------------------------------------------- POST /api/cancel/{session_id}
\* the admitted runs of id that have not left run_pipeline_background
runs_of(id) == {t \in Tasks : task[t].session_id = id /\ task[t].pc \in {"loop", "stage"}}

\* a cancel that stops the task of the session where it is
Cancel_interrupts(id) ==
    /\ LET r == cancel_session(running_session, cancelled_sessions, id)
       IN  /\ cancelled_sessions' = r.cancelled
           /\ cancel_response' = r.ret
           /\ cancel_seen' = IF r.ret THEN cancel_seen \cup runs_of(id) ELSE cancel_seen
    /\ task' = [t \in Tasks |->
                   IF task[t].session_id = id /\ task[t].pc = "stage"
                   THEN [IdleTask EXCEPT !.pc = "done"] ELSE task[t]]
    /\ UNCHANGED <<outside_server, running_session, uploads, disk, results, holder>>

Cancel(id) ==
    /\ LET r == cancel_session(running_session, cancelled_sessions, id)
       IN  /\ cancelled_sessions' = r.cancelled
           /\ cancel_response' = r.ret
           /\ cancel_seen' = IF r.ret THEN cancel_seen \cup runs_of(id) ELSE cancel_seen
    /\ UNCHANGED <<outside_server, running_session, uploads, task, disk, results, holder>>

\* --------------------------------------------------------------- stage records
\* the resume point: the first stage whose checkpoint is absent; the generate
\* stage has no checkpoint and is the resume point when all three exist
detect_start_stage(rag, summary, plan) ==
    IF ~rag THEN 1 ELSE IF ~summary THEN 2 ELSE IF ~plan THEN 3 ELSE 4

\* create_state(config), with the session id added: every stage pending, no error
create_state(session_id) ==
    [exists |-> TRUE, session_id |-> session_id, stages |-> AllPending, error |-> "null"]

\* a marking loop that runs one stage too far: range(start_idx + 1)
mark_reused_inclusive(stages, start_idx) ==
    [i \in StageIdx |-> IF i <= start_idx THEN "completed" ELSE stages[i]]

\* for i in range(start_idx): initial_state["stages"][STAGES[i]] = "completed"
mark_reused(stages, start_idx) ==
    [i \in StageIdx |-> IF i < start_idx THEN "completed" ELSE stages[i]]

RunDir(t) == get_config_dir(RunStyle(task[t].message, task[t].style))
ErrorDir(t) == get_config_dir(ErrorStyle(task[t].style))

\* the first stage of the record that is running, 0 when there is none
FirstRunning(stages) ==
    IF \E i \in StageIdx : stages[i] = "running"
    THEN MinOf({i \in StageIdx : stages[i] = "running"})
    ELSE 0

\* an error update that marks the first stage that is not completed, whether
\* or not it is running
update_state_on_error_unfinished(state, error_msg) ==
    IF state.exists
    THEN [state EXCEPT !.stages = [i \in StageIdx |->
                                      IF /\ state.stages[i] # "completed"
                                         /\ \A j \in 1..(i - 1) : state.stages[j] = "completed"
                                      THEN "failed"
                                      ELSE state.stages[i]],
                       !.error = error_msg]
    ELSE state

\* _update_state_on_error, from load_state on: the record it saves
update_state_on_error(state, error_msg) ==
    IF state.exists
    THEN [state EXCEPT !.stages = [i \in StageIdx |->
                                      IF i = FirstRunning(state.stages) THEN "failed"
                                      ELSE state.stages[i]],
                       !.error = error_msg]
    ELSE state

\* ---------------------------------------------------- run_pipeline_background
\* A coroutine runs without interruption until it suspends, and the lock of the
\* SessionManager is never held across a suspension, so a task is interleaved
\* with other tasks and requests only while a stage's work function is awaited
\* (and, here, before the first stage of run_pipeline starts).

\* except Exception as e: the error result is stored, then state.json is
\* updated; state_err is a fault of the update itself, which is caught and logged
on_exception(sj, t, e, state_err) ==
    IF uploads[task[t].session_id] # "pdf" \/ state_err
    THEN sj
    ELSE [sj EXCEPT ![ErrorDir(t)] = update_state_on_error(@, e)]

\* the exit of run_pipeline_background: the result or the error is stored in
\* app.state.results, sj is what the task leaves in state.json, and the finally
\* block calls end_session
Exit(t, running, sj, result) ==
    /\ results' = [results EXCEPT ![task[t].session_id] = result]
    /\ state_json' = sj
    /\ running_session' = end_session(running, task[t].session_id)
    /\ holder' = IF running_session' = NoSession THEN 0 ELSE holder
    /\ task' = [task EXCEPT ![t] = [IdleTask EXCEPT !.pc = "done"]]

\* a rejection that raises, so that the except branch updates state.json
not_started_raises(t, running) ==
    Exit(t, running,
         on_exception(state_json, t, "Another session is already running", FALSE),
         "Another session is already running")

\* if not can_start: the error is stored and the task returns
not_started(t, running) ==
    Exit(t, running, state_json, "Another session is already running")

\* start_session, and for an admitted task generate_slides_with_pipeline up
\* to save_state(config_dir, initial_state)
Begin(t) ==
    /\ task[t].pc = "scheduled"
    /\ LET id == task[t].session_id
           r == start_session(running_session, cancelled_sessions, id)
       IN  /\ cancelled_sessions' = r.cancelled
           /\ IF ~r.ret
              THEN not_started(t, r.running)
              ELSE IF uploads[id] # "pdf"
              THEN Exit(t, r.running,
                        on_exception(state_json, t, "No PDF file found in uploaded files", FALSE),
                        "No PDF file found in uploaded files")
              ELSE LET from_stage == detect_start_stage(checkpoint_rag, checkpoint_summary,
                                                        checkpoint_plan[RunDir(t)])
                       initial_state == create_state(id)
                       saved == [initial_state EXCEPT
                                    !.stages = mark_reused(@, from_stage)]
                   IN  /\ running_session' = r.running
                       /\ holder' = t
                       /\ state_json' = [state_json EXCEPT ![RunDir(t)] = saved]
                       /\ task' = [task EXCEPT ![t].pc = "loop",
                                               ![t].from_stage = from_stage,
                                               ![t].stage = from_stage,
                                               ![t].state = saved]
                       /\ UNCHANGED results
    /\ UNCHANGED <<outside_server, uploads, checkpoint_rag, checkpoint_summary, checkpoint_plan,
                   cancel_response, cancel_seen>>

\* ------------------------------------------------------------------ run_pipeline
\* state["stages"][stage] = status
set_stage(state, stage, status) == [state EXCEPT !.stages[stage] = status]

\* save_state(config_dir, state)
save_state(sj, dir, state) == [sj EXCEPT ![dir] = state]

\* the first stage of the run starts; the cancel flag is not polled before it
StageStart(t) ==
    /\ task[t].pc = "loop"
    /\ LET running == set_stage(task[t].state, task[t].stage, "running")
       IN  /\ state_json' = save_state(state_json, RunDir(t), running)
           /\ task' = [task EXCEPT ![t].pc = "stage", ![t].state = running,
                                   ![t].calls[task[t].stage] = @ + 1]
    /\ UNCHANGED <<outside_server, gate, uploads, checkpoint_rag, checkpoint_summary, checkpoint_plan,
                   results, cancel_response, cancel_seen, holder>>

\* the predecessor checkpoints a stage loads before doing any work
HasInputs(t) ==
    CASE task[t].stage = 1 -> TRUE
      [] task[t].stage = 2 -> checkpoint_rag
      [] task[t].stage = 3 -> checkpoint_summary
      [] task[t].stage = 4 -> checkpoint_plan[RunDir(t)] /\ checkpoint_summary

\* the stage to run after `stage`, 0 after the last one
next_stage(stage) == IF stage = NumStages THEN 0 ELSE stage + 1

\* a cancellation raised with the message of a stage fault
CancelError_as_fault == "stage fault"

\* raise Exception("Generation cancelled by user")
CancelError == "Generation cancelled by user"

\* the record of a run that is aborted at the cancellation poll: the stage that
\* is running, if any, is marked failed and the error is set
mark_cancelled(state) ==
    [state EXCEPT !.stages = [i \in StageIdx |->
                                 IF i = FirstRunning(state.stages) THEN "failed"
                                 ELSE state.stages[i]],
                  !.error = "cancelled by caller"]

\* The work function returns: its checkpoint is saved and the stage is marked
\* completed. Then either the next stage starts, or run_pipeline returns (after
\* the last stage, or aborted at the cancellation poll before the next stage)
\* and the task exits, with the error "Generation cancelled by user" when the
\* flag is set.
StageReturns(t, state_err) ==
    /\ task[t].pc = "stage"
    /\ HasInputs(t)
    /\ checkpoint_rag' = (checkpoint_rag \/ task[t].stage = 1)
    /\ checkpoint_summary' = (checkpoint_summary \/ task[t].stage = 2)
    /\ checkpoint_plan' = IF task[t].stage = 3
                          THEN [checkpoint_plan EXCEPT ![RunDir(t)] = TRUE]
                          ELSE checkpoint_plan
    /\ LET id == task[t].session_id
           completed == set_stage(task[t].state, task[t].stage, "completed")
           saved == save_state(state_json, RunDir(t), completed)
           nxt == next_stage(task[t].stage)
       IN  IF nxt # 0 /\ ~is_cancelled(cancelled_sessions, id)
           THEN /\ ~state_err
                /\ state_json' = save_state(saved, RunDir(t), set_stage(completed, nxt, "running"))
                /\ task' = [task EXCEPT ![t].stage = nxt,
                                        ![t].state = set_stage(completed, nxt, "running"),
                                        ![t].calls[nxt] = @ + 1]
                /\ UNCHANGED <<running_session, results, holder>>
           ELSE IF is_cancelled(cancelled_sessions, id)
           THEN LET aborted == IF nxt # 0
                               THEN save_state(saved, RunDir(t), mark_cancelled(completed))
                               ELSE saved
                IN  Exit(t, running_session,
                         on_exception(aborted, t, CancelError, state_err),
                         CancelError)
           ELSE /\ ~state_err
                /\ Exit(t, running_session, saved, "result")
    /\ UNCHANGED <<outside_server, cancelled_sessions, uploads, cancel_response, cancel_seen>>

\* a failure handling that stores the error and runs the stage again
StageRaises_Retry(t, state_err) ==
    /\ task[t].pc = "stage"
    /\ results' = [results EXCEPT ![task[t].session_id] = "stage fault"]
    /\ state_json' = on_exception(state_json, t, "stage fault", state_err)
    /\ task' = [task EXCEPT ![t].pc = "loop"]
    /\ UNCHANGED <<outside_server, gate, holder, uploads, checkpoint_rag, checkpoint_summary,
                   checkpoint_plan, cancel_response, cancel_seen>>

\* the work function raises: the exception leaves run_pipeline and
\* generate_slides_with_pipeline and the task exits with the error
StageRaises(t, state_err) ==
    /\ task[t].pc = "stage"
    /\ Exit(t, running_session, on_exception(state_json, t, "stage fault", state_err),
            "stage fault")
    /\ UNCHANGED <<outside_server, cancelled_sessions, uploads, checkpoint_rag, checkpoint_summary,
                   checkpoint_plan, cancel_response, cancel_seen>>

\* --------------------------------------------------------------- specification
TaskStep(t) ==
    \/ Begin(t)
    \/ StageStart(t)
    \/ \E state_err \in BOOLEAN : StageReturns(t, state_err)
    \/ \E state_err \in BOOLEAN : StageRaises(t, state_err)

Next ==
    \/ \E session_id \in Sessions \cup {NoSession}, files \in {"none", "pdf", "other"},
          message \in Messages, style \in Styles :
            Chat(session_id, files, message, style)
    \/ \E id \in Sessions : Cancel(id)
    \/ \E t \in Tasks : TaskStep(t)

Spec == Init /\ [][Next]_vars

\* the same system when no request carries a user message
NextNoMessage ==
    \/ \E session_id \in Sessions \cup {NoSession}, files \in {"none", "pdf", "other"},
          style \in Styles :
            Chat(session_id, files, "", style)
    \/ \E id \in Sessions : Cancel(id)
    \/ \E t \in Tasks : TaskStep(t)

\* the tasks run when they can: a scheduled background task is started, and a
\* stage's work function returns or raises
FairSpec == Init /\ [][NextNoMessage]_vars /\ \A t \in Tasks : WF_vars(TaskStep(t))

\* ------------------------------------------------------- the stage functions
\* A stage function called on its own, with any content of the checkpoint
\* files: "absent" (no file), "empty" (a file holding an empty document),
\* "old" (written before the call) or "new" (written by a call).
InitialContents == {"absent", "empty", "old"}

\* a test for the missing file only: if load_json(path) is None
Missing_file_only(content) == content = "absent"

\* if not load_json(path): the checkpoint is absent or holds nothing
Missing(content) == content \in {"absent", "empty"}

\* the checkpoint each stage saves
rag_checkpoint_name == "rag"
summary_checkpoint_name == "summary"
\* a plan stage that saves its result under the summary checkpoint's path
plan_checkpoint_misplaced == "summary"
plan_checkpoint_name == "plan"

\* the stage raises before any work
aborts(files, stage, error) ==
    [files |-> files,
     run |-> [NoRun EXCEPT !.stage = stage, !.outcome = error]]

\* a stage whose work faults after it has saved its checkpoint
faults_after_save(files, stage, api_key) ==
    [files |-> [n \in CheckpointNames |-> IF n = stage THEN "new" ELSE files[n]],
     run |-> [NoRun EXCEPT !.stage = stage, !.outcome = "fault", !.external = api_key,
                           !.wrote = {stage} \cap CheckpointNames]]

\* the work of the stage faults (an external call fails)
faults(files, stage, api_key) ==
    [files |-> files,
     run |-> [NoRun EXCEPT !.stage = stage, !.outcome = "fault", !.external = api_key]]

\* the stage faults after it has written other files and before it saves its
\* checkpoint
faults_late(files, stage, api_key, others) ==
    [files |-> files,
     run |-> [NoRun EXCEPT !.stage = stage, !.outcome = "fault", !.external = api_key,
                           !.wrote = others]]

\* save_json(path, result): the document is written whole
save_json(files, name) == [files EXCEPT ![name] = "new"]

\* save_json(checkpoint_path, result) and the other files the stage writes
saves(files, stage, api_key, name, others) ==
    [files |-> save_json(files, name),
     run |-> [NoRun EXCEPT !.stage = stage, !.outcome = "ok", !.external = api_key,
                           !.wrote = {name} \cup others]]

run_rag_stage(files, api_key, fault) ==
    IF fault THEN faults(files, "rag", api_key)
    ELSE saves(files, "rag", api_key, rag_checkpoint_name, {})

run_summary_stage(files, api_key, fault) ==
    IF Missing(files["rag"]) THEN aborts(files, "summary", "Missing RAG checkpoint.")
    ELSE IF fault THEN faults(files, "summary", api_key)
    ELSE saves(files, "summary", api_key, summary_checkpoint_name, {"summary.md"})

run_plan_stage(files, api_key, fault) ==
    IF Missing(files["summary"]) THEN aborts(files, "plan", "Missing summary checkpoint.")
    ELSE IF fault THEN faults(files, "plan", api_key)
    ELSE saves(files, "plan", api_key, plan_checkpoint_name, {})

\* run_summary_stage when building the result faults: summary.md is saved, the
\* checkpoint is not
run_summary_stage_late_fault(files, api_key) ==
    IF Missing(files["rag"]) THEN aborts(files, "summary", "Missing RAG checkpoint.")
    ELSE faults_late(files, "summary", api_key, {"summary.md"})

\* the plan the generate stage reads from the plan checkpoint
StagePlans == [output_type : {"slides", "poster"}, total : 0..MaxSections]

\* placeholders made like the images of the generator: one for a poster
generate_placeholder_images_as_generator(plan) ==
    IF plan.output_type = "poster" THEN <<"poster">>
    ELSE [k \in 1..plan.total |-> section_id(k - 1)]

\* _generate_placeholder_images: for idx, section in enumerate(plan.sections)
\* one image named by the section is drawn, written and appended
generate_placeholder_images(plan) == [k \in 1..plan.total |-> section_id(k - 1)]

\* what generator.generate returns to the stage when it does not raise
generated_images(plan) ==
    IF plan.output_type = "poster" THEN <<"poster">>
    ELSE [k \in 1..plan.total |-> section_id(k - 1)]

\* the generate stage saves no checkpoint. Without IMAGE_GEN_API_KEY it draws
\* the placeholders itself; with the key it calls generator.generate, whose
\* exception is the fault of the stage. It writes the images, and slides.pdf
\* for slides with more than one image
run_generate_stage(files, api_key, fault, plan) ==
    IF Missing(files["plan"]) \/ Missing(files["summary"])
    THEN aborts(files, "generate", "Missing checkpoints.")
    ELSE IF api_key /\ fault THEN [faults(files, "generate", api_key) EXCEPT !.run.generator = TRUE]
    ELSE LET images == IF api_key THEN generated_images(plan)
                       ELSE generate_placeholder_images(plan)
         IN  [files |-> files,
              run |-> [NoRun EXCEPT
                         !.stage = "generate", !.outcome = "ok", !.external = api_key,
                         !.generator = api_key, !.images = images,
                         !.wrote = (IF Len(images) > 0 THEN {"images"} ELSE {}) \cup
                                   (IF plan.output_type = "slides" /\ Len(images) > 1
                                    THEN {"slides.pdf"} ELSE {})]]

Returned(r) ==
    /\ checkpoint_file' = r.files
    /\ stage_run' = r.run
    /\ UNCHANGED outside_stage_unit

RunRag(api_key, fault) == Returned(run_rag_stage(checkpoint_file, api_key, fault))
RunSummary(api_key, fault) == Returned(run_summary_stage(checkpoint_file, api_key, fault))
RunSummaryLateFault(api_key) ==
    Returned(run_summary_stage_late_fault(checkpoint_file, api_key))
RunPlan(api_key, fault) == Returned(run_plan_stage(checkpoint_file, api_key, fault))
RunGenerate(api_key, fault, plan) ==
    Returned(run_generate_stage(checkpoint_file, api_key, fault, plan))

StageInit ==
    /\ ServerInit
    /\ GeneratorIdle
    /\ gen_plan = [output_type |-> "slides", total |-> 0, max_workers |-> 1]
    /\ checkpoint_file \in [CheckpointNames -> InitialContents]
    /\ stage_run = NoRun

StageNext ==
    \/ \E api_key \in BOOLEAN, fault \in BOOLEAN : RunRag(api_key, fault)
    \/ \E api_key \in BOOLEAN, fault \in BOOLEAN : RunSummary(api_key, fault)
    \/ \E api_key \in BOOLEAN : RunSummaryLateFault(api_key)
    \/ \E api_key \in BOOLEAN, fault \in BOOLEAN : RunPlan(api_key, fault)
    \/ \E api_key \in BOOLEAN, fault \in BOOLEAN, plan \in StagePlans :
          RunGenerate(api_key, fault, plan)

StageSpec == StageInit /\ [][StageNext]_vars

\* ------------------------------------------------- ImageGenerator.generate
\* One call of generate. The calling thread runs the poster call, or the first
\* two slides in turn and then the loop over as_completed; the other slides run
\* in the threads of the ThreadPoolExecutor. In poster mode the one generation
\* call is kept in unit[0]. An image is named by the id of its section.
max_retries == 3
\* generate(..., max_workers: int = 1, ...)
default_max_workers == 1
retry_delay == 2

\* what one attempt of _call_model can give
Outcomes == {"image", "exception", "no response", "no choices", "no image"}

MinNat(a, b) == IF a <= b THEN a ELSE b

\* a loop over the first slide only
sequential_count_one(total) == MinNat(1, total)

\* for i in range(min(2, total)): the slides generated in turn
sequential_count(total) == MinNat(2, total)

\* a style reference taken from the first slide
style_reference_first(i, current) == IF i = 0 THEN section_id(i) ELSE current

\* if i == 1: style_ref_image = the image of this slide; the reference is
\* named by the section whose image it holds
style_reference(i, current) == IF i = 1 THEN section_id(i) ELSE current

\* a retry loop that sleeps retry_delay after every failed attempt
call_model_flat_wait(u, outcome) ==
    LET n == u.attempts + 1
    IN  IF outcome = "image" THEN [u EXCEPT !.attempts = n, !.status = "finished"]
        ELSE IF n < max_retries
        THEN [u EXCEPT !.attempts = n, !.waits = Append(@, retry_delay)]
        ELSE [u EXCEPT !.attempts = n, !.status = "errored"]

\* a retry loop that sleeps and tries again after the last attempt too
call_model_once_more(u, outcome) ==
    LET n == u.attempts + 1
    IN  IF outcome = "image" THEN [u EXCEPT !.attempts = n, !.status = "finished"]
        ELSE IF n <= max_retries
        THEN [u EXCEPT !.attempts = n, !.waits = Append(@, retry_delay * n)]
        ELSE [u EXCEPT !.attempts = n, !.status = "errored"]

\* one pass of the retry loop of _call_model: the call returns the image, or
\* sleeps and tries again, or raises after the last attempt
call_model(u, outcome) ==
    LET n == u.attempts + 1
    IN  IF outcome = "image" THEN [u EXCEPT !.attempts = n, !.status = "finished"]
        ELSE IF n < max_retries
        THEN [u EXCEPT !.attempts = n, !.waits = Append(@, retry_delay * n)]
        ELSE [u EXCEPT !.attempts = n, !.status = "errored"]

\* the call has come to its end: it takes the next place in the order of
\* completion, the order in which as_completed hands the futures over
settled(u) ==
    IF u.status \in {"finished", "errored"}
    THEN [u EXCEPT !.seq = 1 + Cardinality({j \in Sections : unit[j].seq > 0})]
    ELSE u

\* reference_images of a call that starts now: the style reference, if any
started(ref) == [NoUnit EXCEPT !.status = "running", !.ref = ref]

\* a callback invoked twice for one image
save_callback_twice(calls, image, index) ==
    Append(Append(calls, [image |-> image, index |-> index]),
           [image |-> image, index |-> index])

\* save_callback(generated_img, index, total)
save_callback(calls, image, index) == Append(calls, [image |-> image, index |-> index])

Parallel == 2..(gen_plan.total - 1)
Queued == {i \in Sections : unit[i].status = "queued"}
Running == {i \in Sections : unit[i].status = "running"}

\* results_dict[i]
lookup(dict, i) == (CHOOSE k \in 1..Len(dict) : dict[k][1] = i)

\* an append loop over results_dict.values(), the order of insertion
append_as_completed(dict, total) == [k \in 1..Len(dict) |-> dict[k][2]]

\* for i in range(2, total): results.append(results_dict[i])
append_in_order(dict, total) ==
    [k \in 1..(total - 2) |-> dict[lookup(dict, k + 1)][2]]

\* a generate that takes every plan for slides
poster_mode_never(plan) == FALSE

\* if plan.output_type == "poster"
poster_mode(plan) == plan.output_type = "poster"

\* generate is called: poster mode starts its one call; slides mode returns at
\* once for an empty plan and starts the first slide otherwise
Generate ==
    /\ gen_pc = "idle"
    /\ IF poster_mode(gen_plan)
       THEN /\ gen_pc' = "poster"
            /\ unit' = [unit EXCEPT ![0] = started("none")]
       ELSE IF gen_plan.total = 0
       THEN /\ gen_pc' = "returned"
            /\ UNCHANGED unit
       ELSE /\ gen_pc' = "sequential"
            /\ unit' = [unit EXCEPT ![0] = started(style_ref_image)]
    /\ UNCHANGED <<outside_generator, gen_plan, style_ref_image, gen_results,
                   results_dict, save_calls>>

\* a loop that swallows the failure of a slide and goes on
call_fails_goes_on(pc) == pc

\* _call_model raises in the calling thread: the exception is not caught in
\* _generate_slides, _generate_poster or generate and leaves generate
call_fails(pc) == "raised"

\* _generate_poster and the save of its result
PosterAttempt(outcome) ==
    /\ gen_pc = "poster"
    /\ LET r == settled(call_model(unit[0], outcome))
       IN  IF r.status = "finished"
           THEN /\ unit' = [unit EXCEPT ![0] = [r EXCEPT !.status = "collected"]]
                /\ gen_results' = <<"poster">>
                /\ save_calls' = save_callback(save_calls, "poster", 0)
                /\ gen_pc' = "returned"
           ELSE /\ unit' = [unit EXCEPT ![0] = r]
                /\ gen_pc' = IF r.status = "errored" THEN call_fails(gen_pc) ELSE gen_pc
                /\ UNCHANGED <<gen_results, save_calls>>
    /\ UNCHANGED <<outside_generator, gen_plan, style_ref_image, results_dict>>

\* the loop over the first two slides: one attempt of the slide in turn; when
\* it succeeds the slide is appended and saved, slide 1 becomes the style
\* reference, and the next slide starts, or the pool is created and the other
\* slides are submitted, or generate returns
SequentialAttempt(outcome) ==
    /\ gen_pc = "sequential"
    /\ LET i == Len(gen_results)
           r == settled(call_model(unit[i], outcome))
           ref == style_reference(i, style_ref_image)
           done == [r EXCEPT !.status = "collected"]
       IN  IF r.status = "finished"
           THEN /\ gen_results' = Append(gen_results, section_id(i))
                /\ save_calls' = save_callback(save_calls, section_id(i), i)
                /\ style_ref_image' = ref
                /\ IF i + 1 < sequential_count(gen_plan.total)
                   THEN /\ unit' = [unit EXCEPT ![i] = done, ![i + 1] = started(ref)]
                        /\ UNCHANGED gen_pc
                   ELSE IF gen_plan.total > 2
                   THEN /\ unit' = [j \in Sections |->
                                       IF j = i THEN done
                                       ELSE IF j \in Parallel
                                       THEN [NoUnit EXCEPT !.status = "queued"]
                                       ELSE unit[j]]
                        /\ gen_pc' = "pool"
                   ELSE /\ unit' = [unit EXCEPT ![i] = done]
                        /\ gen_pc' = "returned"
           ELSE /\ unit' = [unit EXCEPT ![i] = r]
                /\ gen_pc' = IF r.status = "errored" THEN call_fails(gen_pc) ELSE gen_pc
                /\ UNCHANGED <<gen_results, save_calls, style_ref_image>>
    /\ UNCHANGED <<outside_generator, gen_plan, results_dict>>

\* a pool that starts a thread for every submitted slide
free_thread_always == TRUE

\* ThreadPoolExecutor(max_workers=max_workers): a submitted slide starts when
\* fewer than max_workers threads are busy
free_thread == Cardinality(Running) < gen_plan.max_workers

\* a free thread of the pool takes the oldest submitted slide: generate_single
\* builds reference_images from style_ref_image
WorkerStart ==
    /\ gen_pc \in {"pool", "draining"}
    /\ Queued # {}
    /\ free_thread
    /\ unit' = [unit EXCEPT ![MinOf(Queued)] = started(style_ref_image)]
    /\ UNCHANGED <<outside_generator, gen_plan, gen_pc, style_ref_image, gen_results,
                   results_dict, save_calls>>

\* one attempt of _call_model in a thread of the pool
WorkerAttempt(i, outcome) ==
    /\ gen_pc \in {"pool", "draining"}
    /\ i \in Running
    /\ unit' = [unit EXCEPT ![i] = settled(call_model(@, outcome))]
    /\ UNCHANGED <<outside_generator, gen_plan, gen_pc, style_ref_image, gen_results,
                   results_dict, save_calls>>

Done == {i \in Parallel : unit[i].status \in {"finished", "errored"}}

\* an iteration that hands over the finished futures in any order
as_completed_any(i) == i \in Done

\* as_completed(futures): the next future is the one that finished first among
\* those not handed over yet
as_completed(i) == i \in Done /\ \A j \in Done : unit[i].seq <= unit[j].seq

\* an exit of the with block that cancels the slides no thread has taken
shutdown_cancels(units) ==
    [j \in Sections |-> IF units[j].status = "queued"
                        THEN [units[j] EXCEPT !.status = "cancelled"]
                        ELSE units[j]]

\* the exception leaves the with block: shutdown(wait=True) cancels nothing,
\* the submitted slides stay as they are
shutdown(units) == units

\* an exit of the with block that does not wait
pool_settled_at_once == TRUE

\* shutdown(wait=True) returns when no submitted slide is waiting or running
pool_settled == Queued = {} /\ Running = {}

\* for future in as_completed(futures): the result of a finished slide is put
\* in results_dict and saved, and after the last one the slides are appended in
\* order and generate returns; the exception of a failed slide leaves the loop
Collect(i) ==
    /\ gen_pc = "pool"
    /\ as_completed(i)
    /\ IF unit[i].status = "finished"
       THEN LET dict == Append(results_dict, <<i, section_id(i)>>)
            IN  /\ results_dict' = dict
                /\ save_calls' = save_callback(save_calls, section_id(i), i)
                /\ unit' = [unit EXCEPT ![i].status = "collected"]
                /\ IF \A j \in Parallel \ {i} : unit[j].status = "collected"
                   THEN /\ gen_results' = gen_results \o append_in_order(dict, gen_plan.total)
                        /\ gen_pc' = "returned"
                   ELSE UNCHANGED <<gen_results, gen_pc>>
       ELSE /\ gen_pc' = "draining"
            /\ unit' = shutdown(unit)
            /\ UNCHANGED <<gen_results, results_dict, save_calls>>
    /\ UNCHANGED <<outside_generator, gen_plan, style_ref_image>>

\* the exit of the with block waits for every submitted slide, then the
\* exception leaves generate
Drained ==
    /\ gen_pc = "draining"
    /\ pool_settled
    /\ gen_pc' = "raised"
    /\ UNCHANGED <<outside_generator, gen_plan, unit, style_ref_image, gen_results,
                   results_dict, save_calls>>

GenInit ==
    /\ ServerInit
    /\ StageUnitIdle
    /\ GeneratorIdle
    /\ gen_plan \in GenPlans

GenNext ==
    \/ Generate
    \/ \E outcome \in Outcomes : PosterAttempt(outcome)
    \/ \E outcome \in Outcomes : SequentialAttempt(outcome)
    \/ WorkerStart
    \/ \E i \in Sections, outcome \in Outcomes : WorkerAttempt(i, outcome)
    \/ \E i \in Sections : Collect(i)
    \/ Drained

GenSpec == GenInit /\ [][GenNext]_vars

\* --------------------------------------------------------------- properties
\* a run: a task between its successful start_session and its own end_session
Active(t) == task[t].pc \in {"loop", "stage"}

\* the task leaves run_pipeline_background (its finally block calls end_session)
ExitStep(t) == task[t].pc \in {"scheduled", "loop", "stage"} /\ task'[t].pc = "done"

BusyError == "Another session is already running"

\* C1: at most one background task is between its successful start_session
\* and its own end_session at any instant.
C1_AtMostOneActiveRun == Cardinality({t \in Tasks : Active(t)}) <= 1

\* C2: an end_session(id) call made by a task that does not hold the slot (its
\* start_session returned False, or the slot it took was already released)
\* leaves the active run unchanged.
C2_EndSessionOnlyByHolder ==
    [][\A t \in Tasks : ExitStep(t) /\ holder # t => running_session' = running_session]_vars

\* C3: a start_session call returns True exactly when no run is active, and
\* then every racing call with another id returns False; after end_session of
\* the admitted id, start_session from any id returns True.
C3_StartSessionExclusive ==
    [][\A t \in Tasks :
        /\ task[t].pc = "scheduled" /\ task'[t].pc # "scheduled" =>
             LET id == task[t].session_id
                 rejected == task'[t].pc = "done" /\ results'[id] = BusyError
             IN  /\ rejected <=> running_session # NoSession
                 /\ task'[t].pc = "loop" =>
                      /\ running_session' = id
                      /\ \A u \in Tasks \ {t} : task'[u].pc = "scheduled" =>
                           ~start_session(running_session', cancelled_sessions',
                                          task'[u].session_id).ret
        /\ ExitStep(t) /\ running_session = task[t].session_id =>
             /\ running_session' = NoSession
             /\ \A id \in Sessions :
                  start_session(running_session', cancelled_sessions', id).ret
      ]_vars

\* a task was admitted while the racing task of another session was rejected
C3_Witness ==
    \E t \in Tasks, s \in Sessions :
        /\ Active(t) /\ running_session = task[t].session_id
        /\ s # task[t].session_id /\ results[s] = BusyError

\* C4: cancel_session(id) on an id that is not the active run returns False
\* and changes no gate state; on the active id it returns True and sets the
\* flag, and the flag of id stays set at least until end_session(id): the
\* active run id changes only in an end_session of that id, and a flag is
\* removed only when no run is active.
C4_CancelSession ==
    [][\A id \in Sessions :
        /\ Cancel(id) =>
             IF running_session = id
             THEN cancel_response' /\ is_cancelled(cancelled_sessions', id)
                  /\ running_session' = running_session
             ELSE ~cancel_response' /\ UNCHANGED gate
        /\ is_cancelled(cancelled_sessions, id) /\ ~is_cancelled(cancelled_sessions', id)
             => running_session = NoSession
        /\ running_session = id /\ running_session' # id
             => \E t \in Tasks : ExitStep(t) /\ task[t].session_id = id
      ]_vars

\* the active run has been cancelled and is still running
C4_Witness ==
    \E t \in Tasks :
        /\ task[t].pc = "stage" /\ running_session = task[t].session_id
        /\ is_cancelled(cancelled_sessions, task[t].session_id) /\ cancel_response

\* C5: every run whose start_session succeeded ends (its finally block calls
\* end_session), and the gate returns to having no active run.
C5_SlotReleased ==
    /\ \A t \in Tasks : Active(t) ~> task[t].pc = "done"
    /\ (running_session # NoSession) ~> (running_session = NoSession)

\* a run has ended with an error and the slot is free again
C5_Witness ==
    /\ running_session = NoSession
    /\ \E s \in Sessions : results[s] \in {"stage fault", "Generation cancelled by user"}
    /\ \E t \in Tasks : task[t].pc = "done"

\* C6: cancel_session changes nothing but the cancel-requested set, and the
\* slot is freed only by the end_session of the run that holds it.
C6_CancelOnlySetsFlag ==
    [][/\ \A id \in Sessions :
            Cancel(id) => UNCHANGED <<running_session, holder, task, uploads, disk, results>>
       /\ running_session # NoSession /\ running_session' # running_session
            => holder \in Tasks /\ ExitStep(holder)
      ]_vars

\* the checkpoint of stage i exists (the generate stage has none)
HasCheckpoint(i, dir) ==
    CASE i = 1 -> checkpoint_rag
      [] i = 2 -> checkpoint_summary
      [] i = 3 -> checkpoint_plan[dir]
      [] OTHER -> FALSE

\* C7: if checkpoints exist for the stages before k and not for stage k, the
\* run resumes at k: the record saved before the pipeline starts marks the
\* stages before k completed and every stage from k on pending, and no work
\* function of a stage before k is called in that run.
C7_ResumeAtFirstMissing ==
    [][\A t \in Tasks :
        /\ task[t].pc = "scheduled" /\ task'[t].pc = "loop" =>
             \A k \in StageIdx :
                 (\A i \in 1..(k - 1) : HasCheckpoint(i, RunDir(t)))
                     /\ ~HasCheckpoint(k, RunDir(t))
                 => /\ task'[t].from_stage = k
                    /\ state_json'[RunDir(t)].exists
                    /\ state_json'[RunDir(t)].stages =
                           [i \in StageIdx |-> IF i < k THEN "completed" ELSE "pending"]
        /\ Active(t) /\ task'[t].pc # "done" =>
             /\ task'[t].from_stage = task[t].from_stage
             /\ \A i \in StageIdx :
                  /\ i < task[t].from_stage => task'[t].calls[i] = 0
                  /\ task'[t].calls[i] # task[t].calls[i] => i >= task[t].from_stage
      ]_vars

\* a run resumed at the plan stage and is executing it
C7_Witness ==
    \E t \in Tasks :
        /\ task[t].pc = "stage" /\ task[t].from_stage = 3
        /\ task[t].calls = <<0, 0, 1, 0>>
        /\ state_json[RunDir(t)].stages = <<"completed", "completed", "running", "pending">>

C9_NoProgressAfterFailure ==
    /\ [][\A t \in Tasks :
            /\ (\E state_err \in BOOLEAN : StageRaises(t, state_err)) =>
                 /\ task'[t].pc = "done"
                 /\ \A i \in StageIdx : task'[t].calls[i] <= task[t].calls[i]
                 /\ \A d \in ConfigDirs, j \in StageIdx :
                      j > task[t].stage
                          /\ state_json'[d].stages[j] \in {"running", "completed"}
                      => state_json'[d].stages[j] = state_json[d].stages[j]
            /\ task[t].pc = "done" => task'[t] = task[t]
         ]_vars
    /\ [](\A t \in Tasks, i \in StageIdx : task[t].calls[i] <= 1)

\* a run failed in a stage and ended, and the stage after it is still pending
C9_Witness ==
    \E d \in ConfigDirs, j \in 1..(NumStages - 1) :
        /\ state_json[d].error = "stage fault"
        /\ state_json[d].stages[j] = "failed"
        /\ state_json[d].stages[j + 1] = "pending"
        /\ \A t \in Tasks : ~Active(t)

\* C10: in the record a run holds, a stage is running or completed only when
\* every earlier stage is completed, so at most one stage is running and the
\* stages run in the order of STAGES; a status moves only pending -> running
\* -> completed, and a stage becomes failed only from running.
C10_StageOrder ==
    /\ [](\A t \in Tasks : Active(t) =>
            /\ \A i \in StageIdx :
                 task[t].state.stages[i] \in {"running", "completed"}
                 => \A j \in 1..(i - 1) : task[t].state.stages[j] = "completed"
            /\ Cardinality({i \in StageIdx : task[t].state.stages[i] = "running"}) <= 1
            /\ task[t].pc = "stage" => task[t].state.stages[task[t].stage] = "running")
    /\ [][/\ \A t \in Tasks : Active(t) /\ task'[t].pc # "done" =>
               \A i \in StageIdx :
                   task'[t].state.stages[i] # task[t].state.stages[i]
                   => <<task[t].state.stages[i], task'[t].state.stages[i]>>
                          \in {<<"pending", "running">>, <<"running", "completed">>}
          /\ \A d \in ConfigDirs, i \in StageIdx :
               state_json'[d].stages[i] = "failed" /\ state_json[d].stages[i] # "failed"
               => state_json[d].stages[i] = "running"
         ]_vars

\* a run that started at the first stage is executing its second stage
C10_Witness ==
    \E t \in Tasks :
        /\ task[t].pc = "stage" /\ task[t].from_stage = 1 /\ task[t].stage = 2
        /\ task[t].state.stages = <<"completed", "running", "pending", "pending">>

\* C11: a summarize, plan or generate stage called when a checkpoint it needs is
\* absent or empty ends with an error, makes no external call and writes no
\* checkpoint and no output file.
C11_AbortBeforeWork ==
    [][LET absent_or_empty(n) == checkpoint_file[n] \in {"absent", "empty"}
           summary == \E k \in BOOLEAN, f \in BOOLEAN : RunSummary(k, f)
           plan == \E k \in BOOLEAN, f \in BOOLEAN : RunPlan(k, f)
           generate == \E k \in BOOLEAN, f \in BOOLEAN, m \in StagePlans : RunGenerate(k, f, m)
           aborted == /\ stage_run'.outcome \notin {"ok", "fault", "none"}
                      /\ ~stage_run'.external
                      /\ stage_run'.wrote = {}
                      /\ checkpoint_file' = checkpoint_file
       IN  /\ summary /\ absent_or_empty("rag") => aborted
           /\ plan /\ absent_or_empty("summary") => aborted
           /\ generate /\ (absent_or_empty("plan") \/ absent_or_empty("summary")) => aborted
      ]_vars

\* the generate stage was called with a plan checkpoint and an empty summary
\* checkpoint, and aborted
C11_Witness ==
    /\ stage_run.stage = "generate" /\ stage_run.outcome = "Missing checkpoints."
    /\ checkpoint_file["plan"] = "old" /\ checkpoint_file["summary"] = "empty"

\* C12: a call of a stage function leaves the checkpoints of the earlier stages
\* as they were: summarize does not write the rag checkpoint, plan writes
\* neither the rag nor the summary checkpoint, generate writes none of the three.
C12_EarlierCheckpointsUnchanged ==
    [][LET kept(names) ==
               /\ \A n \in names : checkpoint_file'[n] = checkpoint_file[n]
               /\ stage_run'.wrote \cap names = {}
       IN  /\ (\E k \in BOOLEAN, f \in BOOLEAN : RunSummary(k, f)) => kept({"rag"})
           /\ (\E k \in BOOLEAN, f \in BOOLEAN : RunPlan(k, f)) => kept({"rag", "summary"})
           /\ (\E k \in BOOLEAN, f \in BOOLEAN, m \in StagePlans : RunGenerate(k, f, m))
                  => kept({"rag", "summary", "plan"})
      ]_vars

\* the plan stage has run on checkpoints written before and saved its own
C12_Witness ==
    /\ stage_run.stage = "plan" /\ stage_run.outcome = "ok"
    /\ checkpoint_file = [n \in CheckpointNames |-> IF n = "plan" THEN "new" ELSE "old"]

\* C13: a checkpoint is written at most once: no run saves the checkpoint of a
\* stage when that checkpoint already exists.
C13_CheckpointWrittenOnce ==
    [][\A t \in Tasks, i \in 1..3 :
          (\E state_err \in BOOLEAN : StageReturns(t, state_err)) /\ task[t].stage = i
          => ~HasCheckpoint(i, RunDir(t))
      ]_vars

\* C14: a cancel request leaves every task where it is; a stage in progress
\* ends only by its own return or exception; when it returns with the cancel
\* flag set, its checkpoint is saved and it is recorded completed, and only
\* then, at the check of the flag, the run ends with the cancellation error.
C14_CancelNotInterrupting ==
    [][\A t \in Tasks :
        LET returns == \E state_err \in BOOLEAN : StageReturns(t, state_err)
            raises == \E state_err \in BOOLEAN : StageRaises(t, state_err)
            i == task[t].stage
        IN  /\ (\E id \in Sessions : Cancel(id)) => task'[t] = task[t]
            /\ task[t].pc = "stage" /\ task'[t] # task[t] => returns \/ raises
            /\ returns /\ is_cancelled(cancelled_sessions, task[t].session_id) =>
                 /\ i <= 3 => HasCheckpoint(i, RunDir(t))'
                 /\ state_json'[RunDir(t)].stages[i] = "completed"
                 /\ task'[t].pc = "done"
                 /\ results'[task[t].session_id] = CancelError
            /\ ExitStep(t) /\ results'[task[t].session_id] = CancelError
                 /\ results[task[t].session_id] # CancelError
                 => returns /\ is_cancelled(cancelled_sessions, task[t].session_id)
      ]_vars

\* a run was cancelled during its first stage, which completed before the run ended
C14_Witness ==
    /\ \E s \in Sessions : results[s] = CancelError
    /\ checkpoint_rag
    /\ \E d \in ConfigDirs :
          /\ state_json[d].exists
          /\ state_json[d].stages = <<"completed", "pending", "pending", "pending">>
    /\ \A t \in Tasks : task[t].pc \in {"idle", "done"}

\* C15: a run ended by cancellation stores the cancellation error, and the
\* record it leaves in its directory has no failed stage and not the error of a
\* fault; a run ended by a stage fault stores a different error, and the record
\* its error handler saves carries that error, not a cancellation error.
C15_CancelDistinctFromFault ==
    [][\A t \in Tasks :
        LET id == task[t].session_id
            record == state_json'[RunDir(t)]
            cancelled == /\ \E state_err \in BOOLEAN : StageReturns(t, state_err)
                         /\ is_cancelled(cancelled_sessions, id)
            faulted == \E state_err \in BOOLEAN : StageRaises(t, state_err)
        IN  /\ cancelled =>
                 /\ results'[id] = "Generation cancelled by user"
                 /\ \A i \in StageIdx : record.stages[i] # "failed"
                 /\ record.error # "stage fault"
            /\ faulted =>
                 results'[id] \notin {"Generation cancelled by user", "result", "none"}
            /\ StageRaises(t, FALSE) =>
                 state_json'[ErrorDir(t)].error
                     \notin {"Generation cancelled by user", "cancelled by caller"}
      ]_vars

\* one session ended by cancellation and another by a stage fault
C15_Witness ==
    \E s1, s2 \in Sessions :
        /\ results[s1] = "Generation cancelled by user"
        /\ results[s2] = "stage fault"
        /\ \A t \in Tasks : ~Active(t)

\* what GET /api/result/{session_id} answers with status 500: the stored error
exposed_error(result) == IF result \in {"none", "result"} THEN "null" ELSE result

C17_RejectedNeverStarts ==
    [][\A t \in Tasks :
          Begin(t) /\ running_session # NoSession
          => /\ UNCHANGED disk
             /\ task'[t].pc = "done"
             /\ \A i \in StageIdx : task'[t].calls[i] = 0
             /\ results'[task[t].session_id] = BusyError
      ]_vars

\* a task was rejected while a run is in a stage, and the run's record is intact
C17_Witness ==
    \E t \in Tasks, s \in Sessions :
        /\ task[t].pc = "stage" /\ results[s] = BusyError
        /\ state_json[RunDir(t)] = task[t].state
        /\ \E u \in Tasks : task[u].pc = "done"


\* C18: in slides mode slide 0 is generated before slide 1, and no generation
\* call of a slide with index 2 or more starts before the image of slide 1,
\* and so the style reference, exists.
Slides == gen_plan.output_type = "slides"

call_started(i) == unit[i].status \notin {"idle", "queued"}

C18_SequentialBeforeParallel ==
    Slides =>
        /\ call_started(1) =>
              /\ unit[0].status = "collected"
              /\ Len(gen_results) >= 1 /\ gen_results[1] = section_id(0)
        /\ \A i \in Sections :
              (i >= 2 /\ call_started(i)) =>
                  /\ Len(gen_results) >= 2 /\ gen_results[2] = section_id(1)
                  /\ style_ref_image # "none"

C18_Witness ==
    /\ Slides
    /\ gen_pc = "pool"
    /\ unit[2].status = "running" /\ unit[3].status = "running"
    /\ gen_results = <<section_id(0), section_id(1)>>

\* C19: in slides mode the calls of slides 0 and 1 receive no style reference,
\* every call of a slide with index 2 or more receives the one reference built
\* from the image of slide 1, and with one section no reference is ever built.
C19_StyleReference ==
    Slides =>
        /\ unit[0].ref = "none"
        /\ gen_plan.total >= 2 => unit[1].ref = "none"
        /\ \A i \in Sections :
              (i >= 2 /\ call_started(i)) => unit[i].ref = section_id(1)
        /\ gen_plan.total = 1 => style_ref_image = "none"

C19_Witness ==
    /\ Slides
    /\ gen_plan.total = 4
    /\ unit[0].attempts > 0 /\ unit[1].attempts > 0
    /\ unit[2].attempts > 0 /\ unit[3].attempts > 0
    /\ unit[2].ref = section_id(1) /\ unit[3].ref = section_id(1)

\* C20: for N sections in slides mode and any max_workers of 1 or more, a
\* generate that returns gives exactly N images and the i-th is the image of
\* section i, whatever the order in which slides 2 and up complete.
C20_ResultsInSectionOrder ==
    (Slides /\ gen_pc = "returned") =>
        /\ Len(gen_results) = gen_plan.total
        /\ \A i \in Sections :
              i < gen_plan.total => gen_results[i + 1] = section_id(i)

C20_Witness ==
    /\ Slides
    /\ gen_pc = "returned"
    /\ gen_plan.total = 4
    /\ Len(results_dict) = 2 /\ results_dict[1][1] = 3
    /\ gen_results = <<section_id(0), section_id(1), section_id(2), section_id(3)>>

\* the sections whose image was handed to the save callback
Delivered == {save_calls[k].index : k \in 1..Len(save_calls)}

\* the sections whose generation call gave an image
Generated == {i \in Sections : unit[i].status \in {"finished", "collected"}}

\* the sections whose generation call failed on every attempt
Exhausted == {i \in Sections : unit[i].status = "errored"}

\* generate is over: it returned its list or raised
Over == gen_pc \in {"returned", "raised"}

\* C21: the images are handed to the save callback in section order: for
\* sections i < j the callback of i comes before the callback of j, also when
\* slides 2 and up complete out of order in the pool.
C21_CallbacksInSectionOrder ==
    Slides =>
        \A k, l \in 1..Len(save_calls) :
            k < l => save_calls[k].index < save_calls[l].index

\* C22: every image generated during a generate call is handed to the save
\* callback, also the images of pool slides that finish after another slide
\* has failed on every attempt.
C22_EveryImageDelivered ==
    Over => Generated \subseteq Delivered

\* C23: no fail-fast: when a pool slide has failed on every attempt no
\* submitted slide is cancelled, each runs to its own success or failure, and
\* generate raises only after all submitted slides have finished.
C23_NoFailFast ==
    /\ [](\A i \in Sections : unit[i].status # "cancelled")
    /\ []((Slides /\ gen_pc = "raised" /\ Exhausted \cap Parallel # {}) =>
             \A i \in Parallel : unit[i].status \in {"finished", "collected", "errored"})
    /\ [][(gen_pc' = "raised" /\ gen_pc = "draining") =>
             \A i \in Sections : unit[i].status \notin {"queued", "running"}]_vars

C23_Witness ==
    /\ Slides
    /\ gen_pc = "raised"
    /\ unit[2].status = "errored"
    /\ unit[3].status = "finished" /\ unit[3].seq > unit[2].seq
    /\ unit[4].status = "errored" /\ unit[4].seq > unit[3].seq

\* the sections that gave their image before the first section failed on its
\* last attempt
SucceededBefore ==
    {i \in Generated : \A j \in Exhausted : unit[i].seq < unit[j].seq}

\* C24: when the generation of one section fails on all 3 attempts, generate
\* fails as a whole and returns no list, what was handed to the save callback
\* stays handed over, and the save callback has been called once for each
\* section that succeeded before the failing section used up its attempts.
C24_FailureKeepsDelivered ==
    /\ [](\A i \in Exhausted : unit[i].attempts = max_retries)
    /\ [](Exhausted # {} => gen_pc # "returned")
    /\ []((gen_pc = "raised") =>
             /\ Exhausted # {}
             /\ Delivered = SucceededBefore
             /\ Len(save_calls) = Cardinality(SucceededBefore))
    /\ [][/\ Len(save_calls) <= Len(save_calls')
           /\ SubSeq(save_calls', 1, Len(save_calls)) = save_calls]_vars

C24_Witness ==
    /\ Slides
    /\ gen_pc = "raised"
    /\ unit[2].status = "errored"
    /\ unit[3].status = "collected" /\ unit[3].seq < unit[2].seq
    /\ unit[4].status = "finished" /\ unit[4].seq > unit[2].seq
    /\ Len(save_calls) = 3

\* C25: a generation whose external call fails k times (k < 3; by exception,
\* empty response or response without image) and then succeeds gives its image
\* after exactly k + 1 external calls, each failure followed by its wait; no
\* section ever causes more than 3 external calls.
C25_RetryCount ==
    \A i \in Sections :
        /\ unit[i].attempts <= max_retries
        /\ \A n \in 1..Len(unit[i].waits) : unit[i].waits[n] = retry_delay * n
        /\ i \in Generated =>
              /\ Len(unit[i].waits) < max_retries
              /\ unit[i].attempts = Len(unit[i].waits) + 1
        /\ unit[i].status = "running" => unit[i].attempts = Len(unit[i].waits)
        /\ i \in Exhausted =>
              /\ unit[i].attempts = max_retries
              /\ Len(unit[i].waits) = max_retries - 1

C25_Witness ==
    /\ unit[0].status = "collected" /\ unit[0].attempts = 1
    /\ unit[1].status = "collected" /\ unit[1].attempts = 2
    /\ unit[2].status = "collected" /\ unit[2].attempts = 3
    /\ unit[2].waits = <<2, 4>>

\* C26: in poster mode, for any number of sections and any max_workers,
\* generate makes exactly one generation call (the retry loop of one image)
\* and a generate that returns gives exactly one image.
C26_PosterOneCall ==
    gen_plan.output_type = "poster" =>
        /\ \A i \in Sections : i # 0 => unit[i] = NoUnit
        /\ gen_pc # "idle" => unit[0].status # "idle"
        /\ gen_pc = "returned" =>
              /\ gen_results = <<"poster">>
              /\ unit[0].status = "collected"
              /\ Len(save_calls) = 1

C26_Witness ==
    /\ gen_plan.output_type = "poster"
    /\ gen_plan.total = MaxSections
    /\ gen_plan.max_workers = MaxWorkers
    /\ gen_pc = "returned"
    /\ gen_results = <<"poster">>

\* C27: in a generate that returns in slides mode each section is generated
\* exactly once: the save callback is called exactly once per section and the
\* list returned holds exactly one image per section.
C27_OncePerSection ==
    (Slides /\ gen_pc = "returned") =>
        /\ Len(save_calls) = gen_plan.total
        /\ Len(gen_results) = gen_plan.total
        /\ \A i \in Sections :
              IF i < gen_plan.total
              THEN /\ unit[i].status = "collected"
                   /\ Cardinality({k \in 1..Len(save_calls) :
                                      save_calls[k].index = i}) = 1
                   /\ \A k \in 1..Len(save_calls) :
                         save_calls[k].index = i => save_calls[k].image = section_id(i)
                   /\ Cardinality({k \in 1..Len(gen_results) :
                                      gen_results[k] = section_id(i)}) = 1
              ELSE unit[i] = NoUnit

C27_Witness ==
    /\ Slides
    /\ gen_pc = "returned"
    /\ gen_plan.total = MaxSections
    /\ unit[1].attempts = 2
    /\ unit[3].attempts = 3
    /\ Len(save_calls) = MaxSections

\* C28: generate over a plan with no section returns an empty list, raises no
\* error and makes no generation call, in both output modes.
C28_EmptyPlan ==
    gen_plan.total = 0 =>
        /\ \A i \in Sections : unit[i] = NoUnit
        /\ gen_pc # "raised"
        /\ gen_pc \in {"idle", "returned"}
        /\ gen_results = <<>>

\* C29: when generate returns or raises, the pool created for the call is
\* drained: no generation submitted by the call is waiting or running, so
\* none can run during a later call.
C29_PoolDrained ==
    Over => \A i \in Sections : unit[i].status \notin {"queued", "running"}

C29_Witness ==
    /\ Slides
    /\ gen_pc = "raised"
    /\ gen_plan.max_workers = 1
    /\ unit[2].status = "errored"
    /\ unit[3].status = "errored" /\ unit[3].seq > unit[2].seq
    /\ unit[4].status = "finished" /\ unit[4].seq > unit[3].seq

\* C30: during the parallel phase at most max_workers generation calls are in
\* flight at any instant; with the default max_workers of 1 the slides with
\* index 2 and up are generated one at a time.
C30_AtMostMaxWorkers ==
    /\ Cardinality(Running) <= gen_plan.max_workers
    /\ gen_plan.max_workers = default_max_workers =>
          \A i, j \in Parallel :
              (unit[i].status = "running" /\ unit[j].status = "running") => i = j

C30_Witness ==
    /\ Slides
    /\ gen_pc = "pool"
    /\ gen_plan.max_workers = 2
    /\ unit[2].status = "running"
    /\ unit[3].status = "running"
    /\ unit[4].status = "queued"

\* C31: the wait after the n-th failed attempt of a generation call (n = 1, 2)
\* is 2 * n time units, and there is no wait after the third and last failed
\* attempt, after which the failure is raised.
C31_LinearBackoff ==
    \A i \in Sections :
        /\ unit[i].waits \in {<<>>, <<2>>, <<2, 4>>}
        /\ unit[i].status = "errored" =>
              unit[i].attempts = 3 /\ unit[i].waits = <<2, 4>>
        /\ (unit[i].status = "running" /\ unit[i].attempts = 2) =>
              unit[i].waits = <<2, 4>>
        /\ (unit[i].status = "running" /\ unit[i].attempts = 1) =>
              unit[i].waits = <<2>>

C31_Witness ==
    /\ Slides
    /\ gen_pc = "raised"
    /\ unit[0].status = "collected" /\ unit[0].waits = <<2>>
    /\ unit[1].status = "errored" /\ unit[1].waits = <<2, 4>>

\* the task makes its start_session call in this step
StartStep(t) == task[t].pc = "scheduled" /\ task'[t].pc # "scheduled"

\* C32: the cancel-requested set shrinks only in a start_session(id) that
\* succeeds, and then only by id: end_session never clears a flag, a
\* start_session that fails clears nothing, and a run admitted for an id
\* cancelled before begins with is_cancelled(id) false.
C32_FlagClearedOnlyByStart ==
    [][/\ cancelled_sessions' # cancelled_sessions =>
            \/ \E id \in Sessions :
                  Cancel(id) /\ cancelled_sessions' = cancelled_sessions \cup {id}
            \/ \E t \in Tasks :
                  /\ StartStep(t)
                  /\ running_session = NoSession
                  /\ cancelled_sessions' = cancelled_sessions \ {task[t].session_id}
       /\ \A t \in Tasks :
            /\ (StartStep(t) /\ running_session # NoSession) =>
                  cancelled_sessions' = cancelled_sessions
            /\ (ExitStep(t) /\ ~StartStep(t)) =>
                  cancelled_sessions' = cancelled_sessions
            /\ (StartStep(t) /\ task'[t].pc = "loop") =>
                  ~is_cancelled(cancelled_sessions', task[t].session_id)
      ]_vars

\* a run has been admitted for an id whose earlier run was cancelled
C32_Witness ==
    \E t \in Tasks :
        /\ task[t].pc = "loop"
        /\ running_session = task[t].session_id
        /\ results[task[t].session_id] = CancelError
        /\ ~is_cancelled(cancelled_sessions, task[t].session_id)

\* C33: if cancel_session(id) returned True at any time before the admitted
\* run of id finishes, the result stored for id by that run is an error and
\* never a success result, also when every stage of the pipeline completed
\* before the flag was looked at.
C33_CancelledRunStoresError ==
    [][\A t \in Tasks :
          (ExitStep(t) /\ t \in cancel_seen) =>
              results'[task[t].session_id] # "result"]_vars

\* the checkpoint file is there, whatever it holds
Exists(content) == content # "absent"

\* C34: a checkpoint of a stage exists only if the work of that stage ran to
\* its end: a rag, summary or plan stage that raises at any point leaves no
\* checkpoint of its own, so that a later run resumes at that stage or before.
C34_CheckpointOnlyOnCompletion ==
    [][LET rag == \E k \in BOOLEAN, f \in BOOLEAN : RunRag(k, f)
           summary == \/ \E k \in BOOLEAN, f \in BOOLEAN : RunSummary(k, f)
                      \/ \E k \in BOOLEAN : RunSummaryLateFault(k)
           plan == \E k \in BOOLEAN, f \in BOOLEAN : RunPlan(k, f)
           raised == stage_run'.outcome # "ok"
           resume == detect_start_stage(Exists(checkpoint_file'["rag"]),
                                        Exists(checkpoint_file'["summary"]),
                                        Exists(checkpoint_file'["plan"]))
           holds(call, name, idx) ==
               /\ (call /\ raised) =>
                     /\ checkpoint_file' = checkpoint_file
                     /\ stage_run'.wrote \cap CheckpointNames = {}
               /\ (call /\ raised /\ ~Exists(checkpoint_file[name])) => resume <= idx
               /\ (call /\ checkpoint_file'[name] # checkpoint_file[name]) =>
                     /\ stage_run'.outcome = "ok"
                     /\ checkpoint_file'[name] = "new"
       IN  /\ holds(rag, "rag", 1)
           /\ holds(summary, "summary", 2)
           /\ holds(plan, "plan", 3)
      ]_vars

\* the summary stage has raised after writing summary.md: no summary checkpoint
C34_Witness ==
    /\ stage_run.stage = "summary" /\ stage_run.outcome = "fault"
    /\ stage_run.wrote = {"summary.md"}
    /\ checkpoint_file["rag"] = "old"
    /\ checkpoint_file["summary"] = "absent"

\* C35: when the generation of slide 0 or of slide 1 fails on every attempt,
\* generate raises at once: no generation call is made and no save callback is
\* invoked for any later section, and no pool is created.
C35_SequentialFailureRaises ==
    Slides =>
        \A i \in {0, 1} :
            unit[i].status = "errored" =>
                /\ gen_pc = "raised"
                /\ \A j \in Sections : j > i => unit[j] = NoUnit
                /\ Delivered = 0..(i - 1)
                /\ results_dict = <<>>

C35_Witness ==
    /\ Slides
    /\ gen_plan.total = MaxSections
    /\ gen_pc = "raised"
    /\ unit[0].status = "collected"
    /\ unit[1].status = "errored"
    /\ Len(save_calls) = 1

\* C36: when the key of the image generation API is absent the generate stage
\* does not fail and never invokes the generator, the external generation call
\* or the save callback: it returns exactly one placeholder image per planned
\* section, in section order, for the slides and for the poster output kind.
C36_PlaceholdersWithoutKey ==
    [][\A plan \in StagePlans, fault \in BOOLEAN :
          (/\ RunGenerate(FALSE, fault, plan)
           /\ ~Missing(checkpoint_file["plan"])
           /\ ~Missing(checkpoint_file["summary"])) =>
              /\ stage_run'.outcome = "ok"
              /\ ~stage_run'.generator
              /\ ~stage_run'.external
              /\ Len(stage_run'.images) = plan.total
              /\ \A k \in 1..plan.total : stage_run'.images[k] = section_id(k - 1)
      ]_vars

\* the stage has drawn one placeholder per section of a poster plan
C36_Witness ==
    /\ stage_run.stage = "generate" /\ stage_run.outcome = "ok"
    /\ ~stage_run.generator /\ ~stage_run.external
    /\ Len(stage_run.images) = MaxSections
    /\ "slides.pdf" \notin stage_run.wrote

\* C37: a /api/chat request that arrives while a different session is the
\* running session is rejected with the conflict status 409 and schedules no
\* background pipeline task. (The request names a session that exists, or asks
\* for a new one.)
C37_ConflictRejected ==
    /\ [](\A session_id \in Sessions \cup {NoSession}, files \in {"none", "pdf", "other"} :
            LET dir == IF session_id = NoSession THEN "absent" ELSE uploads[session_id]
                decision == chat_decision(running_session, session_id, files, dir)
            IN  (/\ running_session # NoSession
                 /\ running_session # session_id
                 /\ decision # "404") =>
                    /\ decision = "409"
                    /\ chat_status(decision) = 409)
    /\ [][\A t \in Tasks :
            (task[t].pc = "idle" /\ task'[t].pc = "scheduled") =>
                \/ running_session = NoSession
                \/ running_session = task'[t].session_id]_vars

====
